---------------------------- MODULE Spec2Model ----------------------------
(***************************************************************************)
(* Model of the RP2040 / BNO085 head tracker sketch (src/tracker.ino):     *)
(* setup() -> initialCenter() -> resetView(), then loop() forever.          *)
(*                                                                         *)
(* Floats are modelled as exact rationals plus NaN.  Rounding error of the *)
(* 32-bit float arithmetic is not modelled; NaN propagation and the        *)
(* comparisons with NaN (always false) are.                                *)
(***************************************************************************)
EXTENDS Integers, Sequences, FiniteSets

(***************************************************************************)
(* Exact arithmetic with NaN.                                              *)
(***************************************************************************)
Abs(n) == IF n < 0 THEN 0 - n ELSE n

RECURSIVE GCD(_, _)
GCD(a, b) == IF b = 0 THEN a ELSE GCD(b, a % b)

\* The float n/d (d # 0), in lowest terms with a positive denominator.
Rat(n, d) ==
    LET s == IF d < 0 THEN 0 - 1 ELSE 1
        g == GCD(Abs(n), Abs(d))
    IN  [nan |-> FALSE, n |-> (s * n) \div g, d |-> Abs(d) \div g]

F(n) == Rat(n, 1)

NaN == [nan |-> TRUE, n |-> 0, d |-> 1]

FAdd(a, b) == IF a.nan \/ b.nan THEN NaN ELSE Rat(a.n * b.d + b.n * a.d, a.d * b.d)
FSub(a, b) == IF a.nan \/ b.nan THEN NaN ELSE Rat(a.n * b.d - b.n * a.d, a.d * b.d)
FMul(a, b) == IF a.nan \/ b.nan THEN NaN ELSE Rat(a.n * b.n, a.d * b.d)

\* Float division.  0/0 is NaN.  x/0 with x # 0 (an infinity) is left
\* undefined: the only divisor of the program that can be zero is the norm
\* of the quaternion, and then every component is zero too.
FDiv(a, b) ==
    CASE a.nan \/ b.nan        -> NaN
      [] b.n = 0 /\ a.n = 0    -> NaN
      [] b.n # 0               -> Rat(a.n * b.d, a.d * b.n)

\* Comparisons: every comparison with a NaN is false.
FGt(a, b) == ~a.nan /\ ~b.nan /\ a.n * b.d > b.n * a.d
FLt(a, b) == ~a.nan /\ ~b.nan /\ a.n * b.d < b.n * a.d
FGe(a, b) == ~a.nan /\ ~b.nan /\ a.n * b.d >= b.n * a.d
FLe(a, b) == ~a.nan /\ ~b.nan /\ a.n * b.d <= b.n * a.d

fabsf(a) == IF a.nan THEN NaN ELSE Rat(Abs(a.n), a.d)

\* copysignf(m, s) for a finite magnitude m and a non-NaN s.
copysignf(m, s) == IF s.n < 0 THEN Rat(0 - Abs(m.n), m.d) ELSE Rat(Abs(m.n), m.d)

(***************************************************************************)
(* Angles in radians are carried as multiples of PI (1/2 is PI/2).         *)
(* atan2f and asinf are exact on the directions the quaternions of the     *)
(* model produce and undefined elsewhere.                                  *)
(***************************************************************************)
atan2f(y, x) ==
    CASE y.nan \/ x.nan                    -> NaN
      [] y.n = 0 /\ x.n >= 0               -> F(0)
      [] y.n = 0 /\ x.n < 0                -> F(1)
      [] y.n > 0 /\ x.n = 0                -> Rat(1, 2)
      [] y.n < 0 /\ x.n = 0                -> Rat(0 - 1, 2)
      [] y.n > 0 /\ x = y                  -> Rat(1, 4)
      [] y.n > 0 /\ x = FSub(F(0), y)      -> Rat(3, 4)
      [] y.n < 0 /\ x = FSub(F(0), y)      -> Rat(0 - 1, 4)
      [] y.n < 0 /\ x = y                  -> Rat(0 - 3, 4)

asinf(s) ==
    CASE s.nan          -> NaN
      [] s = F(0)       -> F(0)
      [] s = Rat(1, 2)  -> Rat(1, 6)
      [] s = Rat(0 - 1, 2) -> Rat(0 - 1, 6)

\* PI / 2, in multiples of PI.
HALF_PI == Rat(1, 2)

\* x * 180.0f / PI for x in multiples of PI.
RadToDeg(x) == FMul(x, F(180))

(***************************************************************************)
(* Quaternion -> Euler angles in degrees (ZYX).  A quaternion is           *)
(* <<real, i, j, k>> with integer components.  The code divides each       *)
(* component by norm = sqrtf(n2) and afterwards only uses products of two  *)
(* normalised components, which are (a * b) / n2.  With n2 = 0 every       *)
(* normalised component is 0/0 = NaN.                                      *)
(***************************************************************************)
Norm2(q) == q[1] * q[1] + q[2] * q[2] + q[3] * q[3] + q[4] * q[4]

\* (a / norm) * (b / norm)
NProd(q, a, b) == FDiv(F(q[a] * q[b]), F(Norm2(q)))

PitchRad(sinp) ==
    IF FGe(fabsf(sinp), F(1)) THEN copysignf(HALF_PI, sinp) ELSE asinf(sinp)

QuatToEuler(q) ==
    LET sinr_cosp == FMul(F(2), FAdd(NProd(q, 1, 2), NProd(q, 3, 4)))
        cosr_cosp == FSub(F(1), FMul(F(2), FAdd(NProd(q, 2, 2), NProd(q, 3, 3))))
        sinp      == FMul(F(2), FSub(NProd(q, 1, 3), NProd(q, 4, 2)))
        siny_cosp == FMul(F(2), FAdd(NProd(q, 1, 4), NProd(q, 2, 3)))
        cosy_cosp == FSub(F(1), FMul(F(2), FAdd(NProd(q, 3, 3), NProd(q, 4, 4))))
    IN  [yaw   |-> RadToDeg(atan2f(siny_cosp, cosy_cosp)),
         pitch |-> RadToDeg(PitchRad(sinp)),
         roll  |-> RadToDeg(atan2f(sinr_cosp, cosr_cosp))]

(***************************************************************************)
(* Angle normalisation and range mapping.                                  *)
(***************************************************************************)
RECURSIVE WrapDown(_)
WrapDown(a) == IF FGt(a, F(180)) THEN WrapDown(FSub(a, F(360))) ELSE a

RECURSIVE WrapUp(_)
WrapUp(a) == IF FLt(a, F(0 - 180)) THEN WrapUp(FAdd(a, F(360))) ELSE a

\* Variant: the second loop is missing.
Wrap_downOnly(a) == WrapDown(a)

\* while (a > 180) a -= 360;  while (a < -180) a += 360;
Wrap(a) == WrapUp(WrapDown(a))

\* yaw -= yaw_offset
ApplyOffset(raw, offset) == FSub(raw, offset)

\* The angle normaliser: offset subtraction, then the wrap.
Normalize(raw, offset) == Wrap(ApplyOffset(raw, offset))

mapFloat(x, in_min, in_max, out_min, out_max) ==
    FAdd(FDiv(FMul(FSub(x, in_min), FSub(out_max, out_min)), FSub(in_max, in_min)),
         out_min)

\* mapFloat(yaw, -180.0, 180.0, -127.0, 127.0)
JoyMap(a) == mapFloat(a, F(0 - 180), F(180), F(0 - 127), F(127))

\* float -> int8_t conversion of `gamepad_report.x = joy_x`: truncation toward
\* zero.  Converting a NaN or a value outside the range of int8_t is undefined
\* behaviour: the result is `ub`, any of Int8UB (the ends of int8_t, the low
\* byte of a saturated 32-bit result, zero).  One report takes one outcome for
\* all of its axes: they run the same conversion on the same input.
Int8UB == {0 - 128, 0 - 1, 0, 127}

Trunc(f) == IF f.n < 0 THEN 0 - ((0 - f.n) \div f.d) ELSE f.n \div f.d

IsInt8(f) == ~f.nan /\ Trunc(f) >= 0 - 128 /\ Trunc(f) <= 127

ToInt8(f, ub) == IF IsInt8(f) THEN Trunc(f) ELSE ub

\* The outcomes to choose from for one report: those of the undefined
\* conversion when an axis has one, else a single arbitrary value that ToInt8
\* does not use.
UBChoices(joy) ==
    IF IsInt8(joy.yaw) /\ IsInt8(joy.pitch) /\ IsInt8(joy.roll) THEN {0} ELSE Int8UB

(***************************************************************************)
(* The serial command line.  A line is a tuple of characters, without the  *)
(* '\n' that readStringUntil consumes.                                     *)
(***************************************************************************)
IsSpace(c) == c \in {" ", "\t", "\r", "\n"}

RECURSIVE TrimLeft(_)
TrimLeft(s) == IF s # <<>> /\ IsSpace(Head(s)) THEN TrimLeft(Tail(s)) ELSE s

RECURSIVE TrimRight(_)
TrimRight(s) ==
    IF s # <<>> /\ IsSpace(s[Len(s)]) THEN TrimRight(SubSeq(s, 1, Len(s) - 1)) ELSE s

Trim(s) == TrimRight(TrimLeft(s))

CmdReset == <<"r", "e", "s", "e", "t">>
CmdResetView == <<"r", "e", "s", "e", "t", "v", "i", "e", "w">>

ToLower(c) == IF c = "R" THEN "r" ELSE c

\* Variant: the comparison ignores case.
IsResetCommand_nocase(line) ==
    [k \in 1..Len(Trim(line)) |-> ToLower(Trim(line)[k])] \in {CmdReset, CmdResetView}

\* command.trim(); command == "reset" || command == "resetview"
IsResetCommand(line) == Trim(line) = CmdReset \/ Trim(line) = CmdResetView

\* The lines the host sends.
Lines ==
    { CmdReset,
      <<" ", "r", "e", "s", "e", "t", "v", "i", "e", "w", "\r">>,
      <<"R", "e", "s", "e", "t">> }

\* Capacity of the serial receive buffer, in lines.
MaxSerial == 1

(***************************************************************************)
(* The sensor.  getSensorEvent either has nothing, or fills sensorValue    *)
(* with an event of some sensor id.                                        *)
(***************************************************************************)
SH2_ROTATION_VECTOR == "SH2_ROTATION_VECTOR"
SH2_ACCELEROMETER == "SH2_ACCELEROMETER"

\* The head at rest: yaw 0, pitch 0, roll 0.
QIdentity == <<1, 0, 0, 0>>
\* Half a turn about the y axis: yaw 180, pitch 0, roll 180.
QFlip == <<0, 0, 1, 0>>
\* Yaw -90, pitch 0, roll 90.
QQuarter == <<1, 1, 0 - 1, 0 - 1>>
\* The degenerate quaternion.
QZero == <<0, 0, 0, 0>>

Quats == {QIdentity, QFlip, QQuarter, QZero}

\* The Euler angles of each quaternion of the model, computed once.
Euler == [q \in Quats |-> QuatToEuler(q)]

NoEvent == [ready |-> FALSE, sensorId |-> "none", q |-> QZero]

SensorEvents ==
    {NoEvent, [ready |-> TRUE, sensorId |-> SH2_ACCELEROMETER, q |-> QZero]}
    \cup {[ready |-> TRUE, sensorId |-> SH2_ROTATION_VECTOR, q |-> q] : q \in Quats}

\* if (bno.getSensorEvent(&sensorValue)) if (sensorValue.sensorId == SH2_ROTATION_VECTOR)
IsRotation(ev) == ev.ready /\ ev.sensorId = SH2_ROTATION_VECTOR

\* int samples = 10
samples == 10

Zero3 == [yaw |-> F(0), pitch |-> F(0), roll |-> F(0)]

NoTick ==
    [event |-> NoEvent, sent |-> 0, inflight |-> 0, raw |-> Zero3, offs |-> Zero3,
     angles |-> Zero3, joy |-> Zero3, report |-> [x |-> 0, y |-> 0, z |-> 0]]

NoCase == [raw |-> F(0), offset |-> F(0), out |-> F(0), done |-> FALSE]

VARIABLES
    pc,               \* where the program is
    ret,              \* where resetView returns to
    yaw_offset, pitch_offset, roll_offset,
    yaw_sum, pitch_sum, roll_sum, i,     \* locals of resetView
    serial,           \* lines waiting in the serial receive buffer
    inflight,         \* activations of resetView that have not returned
    attempts,         \* getSensorEvent calls of the current or last resetView,
                      \* counted up to samples + 1
    rvCount,          \* rotation vectors it retrieved
    rvSeen,           \* their Euler angles
    installed,        \* the offsets as of the last return of resetView
    tick,             \* what the current loop() iteration did with the sensor
    wrapCase          \* an input and result of the angle normaliser (SpecNorm)

progVars ==
    <<pc, ret, yaw_offset, pitch_offset, roll_offset, yaw_sum, pitch_sum, roll_sum, i,
      serial, inflight, attempts, rvCount, rvSeen, installed, tick>>

vars == <<progVars, wrapCase>>

Offsets == [yaw |-> yaw_offset, pitch |-> pitch_offset, roll |-> roll_offset]

Init ==
    /\ pc = "setup"
    /\ ret = "loop_cmd"
    /\ yaw_offset = F(0) /\ pitch_offset = F(0) /\ roll_offset = F(0)
    /\ yaw_sum = F(0) /\ pitch_sum = F(0) /\ roll_sum = F(0) /\ i = 0
    /\ serial = <<>>
    /\ inflight = 0 /\ attempts = 0 /\ rvCount = 0 /\ rvSeen = {}
    /\ installed = Zero3
    /\ tick = NoTick
    /\ wrapCase = NoCase

\* Entry of resetView: the delays, then the sums and the loop counter.
EnterResetView(back) ==
    /\ pc' = "rv_loop"
    /\ ret' = back
    /\ yaw_sum' = F(0) /\ pitch_sum' = F(0) /\ roll_sum' = F(0)
    /\ i' = 0
    /\ inflight' = inflight + 1
    /\ attempts' = 0 /\ rvCount' = 0 /\ rvSeen' = {}

\* initialCenter: one event is fetched and converted, the result is dropped;
\* then resetView is called.  setup returns to the first loop().
InitialCenter ==
    /\ pc = "setup"
    /\ \E ev \in SensorEvents : TRUE
    /\ EnterResetView("loop_cmd")
    /\ UNCHANGED <<yaw_offset, pitch_offset, roll_offset, serial, installed, tick,
                   wrapCase>>

\* The host sends a line; a full buffer drops it.
SerialReceive ==
    /\ Len(serial) < MaxSerial
    /\ \E line \in Lines : serial' = Append(serial, line)
    /\ UNCHANGED <<pc, ret, yaw_offset, pitch_offset, roll_offset, yaw_sum, pitch_sum,
                   roll_sum, i, inflight, attempts, rvCount, rvSeen, installed, tick,
                   wrapCase>>

\* Variant: the command is also handled while resetView is in its loop, as a
\* serial event handler would.
AtCommandStep_async == pc \in {"loop_cmd", "rv_loop"}

\* loop() reads the serial port only at its top, after resetView has returned.
AtCommandStep == pc = "loop_cmd"

\* First half of loop(): the command.
LoopCommand ==
    /\ AtCommandStep
    /\ tick' = NoTick
    /\ \/ /\ serial = <<>>
          /\ pc' = "loop_sensor"
          /\ UNCHANGED <<ret, yaw_sum, pitch_sum, roll_sum, i, serial, inflight,
                         attempts, rvCount, rvSeen>>
       \/ /\ serial # <<>>
          /\ ~IsResetCommand(Head(serial))
          /\ serial' = Tail(serial)
          /\ pc' = "loop_sensor"
          /\ UNCHANGED <<ret, yaw_sum, pitch_sum, roll_sum, i, inflight,
                         attempts, rvCount, rvSeen>>
       \/ /\ serial # <<>>
          /\ IsResetCommand(Head(serial))
          /\ serial' = Tail(serial)
          /\ EnterResetView("loop_sensor")
    /\ UNCHANGED <<yaw_offset, pitch_offset, roll_offset, installed, wrapCase>>

\* Variant: only a retrieved rotation vector counts as an iteration.
NextI_onSuccess(ev) == IF IsRotation(ev) THEN i + 1 ELSE i

\* for (int i = 0; i < samples; i++)
NextI(ev) == i + 1

\* One iteration of the loop of resetView.
ResetViewSample ==
    /\ pc = "rv_loop"
    /\ i < samples
    /\ \E ev \in SensorEvents :
          /\ IF IsRotation(ev)
                THEN LET e == Euler[ev.q]
                     IN  /\ yaw_sum' = FAdd(yaw_sum, e.yaw)
                         /\ pitch_sum' = FAdd(pitch_sum, e.pitch)
                         /\ roll_sum' = FAdd(roll_sum, e.roll)
                         /\ rvCount' = rvCount + 1
                         /\ rvSeen' = rvSeen \cup {e}
                ELSE UNCHANGED <<yaw_sum, pitch_sum, roll_sum, rvCount, rvSeen>>
          /\ i' = NextI(ev)
    /\ attempts' = IF attempts > samples THEN attempts ELSE attempts + 1
    /\ UNCHANGED <<pc, ret, yaw_offset, pitch_offset, roll_offset, serial, inflight,
                   installed, tick, wrapCase>>

\* Variant: the divisor is off by one.
Average_offByOne(sum) == FDiv(sum, F(samples - 1))

\* sum / samples
Average(sum) == FDiv(sum, F(samples))

\* yaw_offset = yaw_sum / samples
SetYawOffset ==
    /\ pc = "rv_loop"
    /\ i >= samples
    /\ yaw_offset' = Average(yaw_sum)
    /\ pc' = "rv_pitch"
    /\ UNCHANGED <<ret, pitch_offset, roll_offset, yaw_sum, pitch_sum, roll_sum, i,
                   serial, inflight, attempts, rvCount, rvSeen, installed, tick,
                   wrapCase>>

\* pitch_offset = pitch_sum / samples
SetPitchOffset ==
    /\ pc = "rv_pitch"
    /\ pitch_offset' = Average(pitch_sum)
    /\ pc' = "rv_roll"
    /\ UNCHANGED <<ret, yaw_offset, roll_offset, yaw_sum, pitch_sum, roll_sum, i,
                   serial, inflight, attempts, rvCount, rvSeen, installed, tick,
                   wrapCase>>

\* roll_offset = roll_sum / samples, and resetView returns.
SetRollOffset ==
    /\ pc = "rv_roll"
    /\ roll_offset' = Average(roll_sum)
    /\ pc' = ret
    /\ inflight' = inflight - 1
    /\ installed' = [yaw |-> yaw_offset, pitch |-> pitch_offset, roll |-> roll_offset']
    /\ UNCHANGED <<ret, yaw_offset, pitch_offset, yaw_sum, pitch_sum, roll_sum, i,
                   serial, attempts, rvCount, rvSeen, tick, wrapCase>>

\* Variant: the sensor half of loop() also runs while resetView does, as it
\* would on a timer or on the second core.
AtSensorStep_concurrent == pc \in {"loop_sensor", "rv_loop", "rv_pitch", "rv_roll"}

\* The sensor half of loop() runs after the command half has returned.
AtSensorStep == pc = "loop_sensor"

\* Variant: sendReport is called outside the ifs.
SendsReport_always(ev, usbReady) == usbReady

\* sendReport is called inside both ifs, when the HID interface is ready.
SendsReport(ev, usbReady) == IsRotation(ev) /\ usbReady

\* Second half of loop(): the sensor event, the pipeline, the report.
\* gamepad_report is written in full before each sendReport and read nowhere
\* else, so the model keeps it in tick.report.
LoopSensor ==
    /\ AtSensorStep
    /\ \E ev \in SensorEvents, usbReady \in BOOLEAN :
          LET raw == IF IsRotation(ev) THEN Euler[ev.q] ELSE Zero3
              angles == [yaw   |-> Normalize(raw.yaw, yaw_offset),
                         pitch |-> Normalize(raw.pitch, pitch_offset),
                         roll  |-> Normalize(raw.roll, roll_offset)]
              joy == [yaw   |-> JoyMap(angles.yaw),
                      pitch |-> JoyMap(angles.pitch),
                      roll  |-> JoyMap(angles.roll)]
              sent == IF SendsReport(ev, usbReady) THEN 1 ELSE 0
          IN  \E ub \in UBChoices(joy) :
                 tick' =
                    IF IsRotation(ev)
                       THEN [event |-> ev, sent |-> sent, inflight |-> inflight,
                             raw |-> raw, offs |-> Offsets, angles |-> angles,
                             joy |-> joy,
                             report |-> [x |-> ToInt8(joy.yaw, ub),
                                         y |-> ToInt8(joy.pitch, ub),
                                         z |-> ToInt8(joy.roll, ub)]]
                       ELSE [NoTick EXCEPT !.event = ev, !.sent = sent,
                                          !.inflight = inflight]
    /\ pc' = "loop_cmd"
    /\ UNCHANGED <<ret, yaw_offset, pitch_offset, roll_offset, yaw_sum, pitch_sum,
                   roll_sum, i, serial, inflight, attempts, rvCount, rvSeen, installed,
                   wrapCase>>

ResetViewStep == ResetViewSample \/ SetYawOffset \/ SetPitchOffset \/ SetRollOffset

ProgramStep ==
    \/ InitialCenter
    \/ LoopCommand
    \/ LoopSensor
    \/ ResetViewStep

Next == ProgramStep \/ SerialReceive

Spec == Init /\ [][Next]_vars

(***************************************************************************)
(* The startup resetView alone: from the state in which initialCenter has  *)
(* just called it until it returns.  The processor keeps executing it.     *)
(***************************************************************************)
InitRecenter ==
    /\ pc = "rv_loop"
    /\ ret = "loop_cmd"
    /\ yaw_offset = F(0) /\ pitch_offset = F(0) /\ roll_offset = F(0)
    /\ yaw_sum = F(0) /\ pitch_sum = F(0) /\ roll_sum = F(0) /\ i = 0
    /\ serial = <<>>
    /\ inflight = 1 /\ attempts = 0 /\ rvCount = 0 /\ rvSeen = {}
    /\ installed = Zero3
    /\ tick = NoTick
    /\ wrapCase = NoCase

NextRecenter == ResetViewStep \/ SerialReceive

SpecRecenter == InitRecenter /\ [][NextRecenter]_vars /\ WF_vars(ResetViewStep)

(***************************************************************************)
(* The angle normaliser alone, on a grid of raw angles and offsets.        *)
(***************************************************************************)
\* Offsets reach MaxTurns full turns beyond [-180, 180].
MaxTurns == 2

RawGrid == {F(45 * k) : k \in (0 - 4)..4} \cup {NaN}

OffsetGrid == {F(45 * k) : k \in (0 - 4 - 8 * MaxTurns)..(4 + 8 * MaxTurns)} \cup {NaN}

InitNorm ==
    /\ pc = "setup"
    /\ ret = "loop_cmd"
    /\ yaw_offset = F(0) /\ pitch_offset = F(0) /\ roll_offset = F(0)
    /\ yaw_sum = F(0) /\ pitch_sum = F(0) /\ roll_sum = F(0) /\ i = 0
    /\ serial = <<>>
    /\ inflight = 0 /\ attempts = 0 /\ rvCount = 0 /\ rvSeen = {}
    /\ installed = Zero3
    /\ tick = NoTick
    /\ wrapCase \in [raw : RawGrid, offset : OffsetGrid, out : {F(0)}, done : {FALSE}]

NormalizeStep ==
    /\ ~wrapCase.done
    /\ wrapCase' = [wrapCase EXCEPT !.out = Normalize(wrapCase.raw, wrapCase.offset),
                                    !.done = TRUE]
    /\ UNCHANGED progVars

SpecNorm == InitNorm /\ [][NormalizeStep]_vars

(***************************************************************************)
(* Properties.                                                             *)
(***************************************************************************)
Finite3(e) == ~e.yaw.nan /\ ~e.pitch.nan /\ ~e.roll.nan

\* raw - offset of the normaliser case.
CaseDiff == FSub(wrapCase.raw, wrapCase.offset)

\* a - b is a whole number of turns.
SameDirection(a, b) == LET t == FDiv(FSub(a, b), F(360)) IN t.d = 1

\* C1: once resetView has returned, each offset is the average of the samples
\* it retrieved: the sum divided by their number.
C1_OffsetIsAverageOfRetrieved ==
    (pc \in {"loop_cmd", "loop_sensor"} /\ rvCount > 0 /\ ~yaw_sum.nan)
        => /\ yaw_offset = FDiv(yaw_sum, F(rvCount))
           /\ pitch_offset = FDiv(pitch_sum, F(rvCount))
           /\ roll_offset = FDiv(roll_sum, F(rvCount))

\* C2 as stated: a sample retrieved while resetView runs is output, and every
\* output uses the offsets as of the last return of resetView.
C2_OutputContinuesDuringRecenter ==
    /\ [][(inflight > 0 /\ rvCount' > rvCount) => tick'.sent = 1]_vars
    /\ [](tick.sent = 1 => tick.offs = installed)

\* C2 as amended: no report is sent while resetView runs, and every report
\* sent was computed, with no resetView running, from the offsets as of the
\* last return of resetView.
C2_NoOutputDuringRecenter ==
    /\ inflight > 0 => tick.sent = 0
    /\ tick.sent = 1 => (tick.inflight = 0 /\ tick.offs = installed)

\* resetView has written yaw_offset and not yet roll_offset: the offsets are a
\* mix of old and new fields.
C2_Witness ==
    /\ pc = "rv_roll"
    /\ yaw_offset # installed.yaw
    /\ roll_offset = installed.roll
    /\ Average(roll_sum) # roll_offset
    /\ tick.sent = 0

\* C3: at most one resetView is running; while one runs no line is taken from
\* the serial buffer, and its loop counter and sums only advance by its own
\* iterations.
C3_SingleRecenter ==
    /\ [](inflight <= 1)
    /\ [][inflight >= 1 =>
            /\ inflight' <= 1
            /\ serial' = serial \/ \E line \in Lines : serial' = Append(serial, line)
            /\ i' = i \/ i' = i + 1
            /\ <<yaw_sum, pitch_sum, roll_sum>>' # <<yaw_sum, pitch_sum, roll_sum>>
                  => i' = i + 1]_vars

\* A reset command waits in the buffer while resetView is in its loop.
C3_Witness ==
    /\ pc = "rv_loop" /\ i > 0 /\ inflight = 1 /\ rvCount > 0
    /\ serial # <<>> /\ Trim(Head(serial)) = CmdReset

\* C4: a tick whose quaternion has norm zero sends no report; no report is
\* computed from a NaN angle, and the sums of resetView are never NaN.
C4_DegenerateFailsLocally ==
    /\ (IsRotation(tick.event) /\ Norm2(tick.event.q) = 0) => tick.sent = 0
    /\ tick.sent = 1 => Finite3(tick.angles)
    /\ ~yaw_sum.nan /\ ~pitch_sum.nan /\ ~roll_sum.nan

\* C5 as stated: the normalised angle lies in (-180, 180].
C5_HalfOpenInterval ==
    (wrapCase.done /\ ~CaseDiff.nan)
        => FGt(wrapCase.out, F(0 - 180)) /\ FLe(wrapCase.out, F(180))

\* C5 as amended: the normalised angle lies in [-180, 180] and differs from
\* raw - offset by whole turns; a difference already in [-180, 180] is kept,
\* so +180 stays +180 and -180 stays -180; from above 180 the result is in
\* (-180, 180], from below -180 it is in [-180, 180).  NaN stays NaN.
C5_ClosedInterval ==
    wrapCase.done =>
        IF CaseDiff.nan
           THEN wrapCase.out.nan
           ELSE /\ FGe(wrapCase.out, F(0 - 180)) /\ FLe(wrapCase.out, F(180))
                /\ SameDirection(wrapCase.out, CaseDiff)
                /\ (FGe(CaseDiff, F(0 - 180)) /\ FLe(CaseDiff, F(180)))
                      => wrapCase.out = CaseDiff
                /\ FGt(CaseDiff, F(180)) => wrapCase.out # F(0 - 180)
                /\ FLt(CaseDiff, F(0 - 180)) => wrapCase.out # F(180)

\* A difference of -180 - 360 is normalised to -180.
C5_Witness ==
    wrapCase.done /\ CaseDiff = F(0 - 540) /\ wrapCase.out = F(0 - 180)

\* C6: after a resetView that retrieved the same finite orientation in all of
\* its iterations, the offsets equal that orientation, and a tick with that
\* orientation normalises to yaw = pitch = roll = 0.
C6_ConstantOrientationCentres ==
    (inflight = 0 /\ rvCount = samples /\ Cardinality(rvSeen) = 1)
        => \A e \in rvSeen :
              Finite3(e) =>
                 /\ Offsets = e
                 /\ (IsRotation(tick.event) /\ tick.raw = e) => tick.angles = Zero3

C6_Witness ==
    /\ inflight = 0 /\ rvCount = samples /\ rvSeen = {Euler[QQuarter]}
    /\ tick.sent = 1 /\ tick.raw = Euler[QQuarter] /\ tick.angles = Zero3

\* C7: a tick sends at most one report, and only for a rotation vector that
\* the sensor delivered in that tick, computed from it.
C7_OneSamplePerTick ==
    /\ tick.sent \in {0, 1}
    /\ tick.sent = 1 =>
          /\ IsRotation(tick.event)
          /\ tick.raw = Euler[tick.event.q]
          /\ tick.angles.yaw = Normalize(tick.raw.yaw, yaw_offset)
          /\ tick.joy.yaw = JoyMap(tick.angles.yaw)
    /\ ~IsRotation(tick.event) => tick.sent = 0

\* A tick whose event is not a rotation vector has sent nothing.
C7_Witness ==
    pc = "loop_cmd" /\ tick.event.sensorId = SH2_ACCELEROMETER /\ tick.sent = 0

InAxisRange(f) == FGe(f, F(0 - 127)) /\ FLe(f, F(127))

\* C8: every report sent holds axis values in [-127, 127], converted from
\* range mapper results in [-127, 127].
C8_AxisInRange ==
    tick.sent = 1 =>
        /\ InAxisRange(tick.joy.yaw) /\ InAxisRange(tick.joy.pitch)
        /\ InAxisRange(tick.joy.roll)
        /\ tick.report.x \in (0 - 127)..127
        /\ tick.report.y \in (0 - 127)..127
        /\ tick.report.z \in (0 - 127)..127

\* C9: the offsets start at zero; they change only in the three assignments
\* that end resetView; resetView starts only from setup, which never runs
\* again, or from a line that is `reset` or `resetview` once trimmed.
C9_OffsetFrame ==
    /\ Offsets = Zero3
    /\ [][/\ Offsets' # Offsets =>
                (inflight = 1 /\ i = samples /\ pc \in {"rv_loop", "rv_pitch", "rv_roll"})
          /\ inflight' > inflight =>
                \/ pc = "setup"
                \/ /\ pc = "loop_cmd" /\ serial # <<>>
                   /\ Trim(Head(serial)) \in {CmdReset, CmdResetView}
          /\ pc # "setup" => pc' # "setup"]_vars

\* A recenter started by a command has replaced the offsets of the startup
\* recenter.
C9_Witness ==
    /\ pc = "loop_sensor" /\ ret = "loop_sensor" /\ inflight = 0
    /\ rvSeen = {Euler[QFlip]} /\ yaw_offset = F(180)

\* C10: resetView leaves its loop after exactly `samples` calls of
\* getSensorEvent, whatever they returned, and then returns to its caller
\* with the offsets installed.
C10_RecenterTerminates ==
    /\ [](pc \in {"rv_pitch", "rv_roll"} => (attempts = samples /\ i = samples))
    /\ [](inflight = 0 => (attempts = samples /\ Offsets = installed))
    /\ (inflight > 0) ~> (inflight = 0 /\ pc = ret)

\* The offsets are being installed after a loop in which the sensor was never
\* ready.
C10_Witness ==
    pc = "rv_pitch" /\ attempts = samples /\ rvCount = 0

=============================================================================
